---- MODULE Spec2Model ----
(***************************************************************************)
(* Model of linkedin_games_scraper.solver.GameSolver: the exchange         *)
(* classifier (_find_game_response), the six per-game extractors, the      *)
(* per-game retrieval loops (solve_<game>) and the leaderboard aggregator  *)
(* (find_leaderboard_data).                                                *)
(*                                                                         *)
(* Text is modelled as a sequence of tokens (a URL is cut at the places    *)
(* where the substring tests of the code can tell two URLs apart, a JSON   *)
(* string is a sequence of characters); "a in b" on text is contiguous     *)
(* sub-sequence containment.                                               *)
(***************************************************************************)
EXTENDS Integers, Sequences, FiniteSets, TLC

VARIABLES
    requests,      \* self.driver.requests: the captured exchanges, in capture order
    results,       \* self.results["data"]
    pc,            \* where the running solve_<game> call stands
    game,          \* the game the running solve_<game> call is for
    elapsed,       \* time.time() minus the time at which end_time was computed
    solution,      \* the local variable solution of solve_<game>
    polls,         \* number of calls of _find_<game>_solution made by the loop
    found,         \* index in requests of the exchange whose body the last poll read (0: none)
    user,          \* the user the solver was constructed for (main.py), or NoUser
    leaderboard,   \* the mapping returned by the last find_leaderboard_data call
    saves,         \* number of executions of save_results
    calls,         \* number of calls of solve_all_games, cleanup and the main script so far
    driver,        \* the browser session self.driver: "open" or "quit"
    csrf_token,    \* the local csrf_token of the main script
    last_fetch,       \* the fetch the last get_leaderboard_via_fetch call issued, or NoFetch
    now,           \* datetime.now(), in hours
    recorded,      \* the dict leaderboard of the main script: game -> mapping
    attempt        \* the loop variable i of the main script's retry loop

vars == <<requests, results, pc, game, elapsed, solution, polls, found, user, leaderboard,
          saves, calls, driver, csrf_token, last_fetch, now, recorded, attempt>>

puzzleVars == <<results, pc, game, elapsed, solution, polls, found>>
boardVars == <<user, leaderboard>>
scriptVars == <<saves, calls, driver, csrf_token, last_fetch, now, recorded, attempt>>

---------------------------------------------------------------------------
(* Bounds of the model *)

\* longest captured-exchange log explored while a retrieval loop runs
MaxRequests == 2

\* longest captured-exchange log explored between a leaderboard fetch and its scan
MaxAnswers == 3

\* timeout_seconds of solve_<game> (the code's default is 30)
TimeoutSeconds == 2

\* longest time one time.sleep(1) may take beyond the second it asks for
MaxOversleep == 1

\* longest list of rungs and longest list of tango tokens handed to a decoder
MaxItems == 3

\* longest flat mini sudoku solution handed to the decoder
MaxCells == 4

\* largest gridRowSize a mini sudoku payload names
MaxGridRowSize == 2

\* number of calendar days the clock is followed over
MaxClockDays == 2

\* most calls of solve_all_games and cleanup a client makes on one solver
MaxCalls == 2

\* longest captured-exchange log explored in one round of the main script
MaxRoundAnswers == 1

---------------------------------------------------------------------------
(* Python values: JSON documents and what the extractors build from them *)

JNull == [t |-> "null"]
JBool(b) == [t |-> "bool", v |-> b]
JNum(n) == [t |-> "num", v |-> n]
JStr(chars) == [t |-> "str", v |-> chars]
JList(seq) == [t |-> "list", v |-> seq]
JObj(fn) == [t |-> "obj", v |-> fn]

\* the outcome of an expression that raised an exception
Raise == [t |-> "raise"]

\* None
None == JNull

\* bool(v)
Truthy(v) ==
    CASE v.t = "null" -> FALSE
      [] v.t = "bool" -> v.v
      [] v.t = "num" -> v.v # 0
      [] v.t = "str" -> Len(v.v) > 0
      [] v.t = "list" -> Len(v.v) > 0
      [] v.t = "obj" -> DOMAIN v.v # {}
      [] OTHER -> FALSE

\* pat in text, for two texts
Contains(text, pat) ==
    \E i \in 1..(Len(text) - Len(pat) + 1) : SubSeq(text, i, i + Len(pat) - 1) = pat

\* v[key] for a string key: only a dict has string keys
py_key(v, key) ==
    IF v.t = "obj" /\ key \in DOMAIN v.v THEN v.v[key] ELSE Raise

\* v[i] for an index i >= 0: a list element, a character of a string
py_index(v, i) ==
    CASE v.t = "list" /\ i < Len(v.v) -> v.v[i + 1]
      [] v.t = "str" /\ i < Len(v.v) -> JStr(<<v.v[i + 1]>>)
      [] OTHER -> Raise

\* v.get(key): None for an absent key, AttributeError for anything but a dict
py_get(v, key) ==
    IF v.t # "obj" THEN Raise
    ELSE IF key \in DOMAIN v.v THEN v.v[key] ELSE None

\* v.get(key, default)
py_get_default(v, key, default) ==
    IF v.t # "obj" THEN Raise
    ELSE IF key \in DOMAIN v.v THEN v.v[key] ELSE default

RECURSIVE SetToSeq(_)
SetToSeq(S) ==
    IF S = {} THEN <<>>
    ELSE LET x == CHOOSE y \in S : TRUE IN <<x>> \o SetToSeq(S \ {x})

\* list(v), the items "for x in v" visits, or Raise: the elements of a list,
\* the characters of a string, the keys of a dict (a key counts as one character)
py_iter(v) ==
    CASE v.t = "list" -> v
      [] v.t = "str" -> JList([i \in 1..Len(v.v) |-> JStr(<<v.v[i]>>)])
      [] v.t = "obj" -> LET keys == SetToSeq(DOMAIN v.v)
                        IN JList([i \in 1..Len(keys) |-> JStr(<<keys[i]>>)])
      [] OTHER -> Raise

---------------------------------------------------------------------------
(* URLs *)

Games == {"pinpoint", "crossclimb", "zip", "queens", "tango", "mini_sudoku"}

GAME_TYPE_IDS ==
    [g \in Games |->
        CASE g = "pinpoint" -> 1
          [] g = "crossclimb" -> 2
          [] g = "queens" -> 3
          [] g = "tango" -> 5
          [] g = "zip" -> 6
          [] g = "mini_sudoku" -> 7]

Digit(d) ==
    CASE d = 0 -> "0" [] d = 1 -> "1" [] d = 2 -> "2" [] d = 3 -> "3" [] d = 4 -> "4"
      [] d = 5 -> "5" [] d = 6 -> "6" [] d = 7 -> "7" [] d = 8 -> "8" [] d = 9 -> "9"

\* str(n) for n >= 0, as it appears in an f-string
RECURSIVE Digits(_)
Digits(n) ==
    IF n < 10 THEN <<Digit(n)>> ELSE Digits(n \div 10) \o <<Digit(n % 10)>>

GraphqlToken == <<"voyager/api/graphql">>
GamesToken == <<"voyagerIdentityDashGame", "s">>
GamesPagesToken == <<"voyagerIdentityDashGame", "s", "Pages">>
ConnectionsToken == <<"voyagerIdentityDashGame", "ConnectionsEntities">>

\* f"gameTypeId:{game_type_id}"
GameTypeIdToken(game_type_id) == <<"gameTypeId:">> \o Digits(game_type_id)

\* the URL of a request to endpoint for the puzzle of game type id, in a query family
GameUrl(endpoint, id, family) ==
    <<"https://www.linkedin.com/">> \o endpoint \o <<"?variables=(">>
        \o GameTypeIdToken(id) \o <<")&queryId=">> \o family \o <<".hash">>

---------------------------------------------------------------------------
(* Captured exchanges: request.url and request.response *)

\* request.response is None: no response (yet)
NoResponse == [k |-> "none"]
\* a response whose body is not valid UTF-8
BytesBody == [k |-> "bytes"]
\* a response whose body is text but not JSON
TextBody == [k |-> "text"]
\* a response whose body is the JSON document v
JsonBody(v) == [k |-> "json", v |-> v]

Exchange(url, response) == [url |-> url, response |-> response]

\* json.loads(request.response.body.decode("utf-8")), or Raise
loads(response) ==
    IF response.k = "json" THEN response.v ELSE Raise

---------------------------------------------------------------------------
(* _find_game_response *)

\* the URL test of _find_game_response without its exclusion of the pages family
url_matches_without_pages_test(url, game_type_id) ==
    /\ Contains(url, GraphqlToken)
    /\ Contains(url, GameTypeIdToken(game_type_id))
    /\ Contains(url, GamesToken)

\* the URL test of _find_game_response
url_matches(url, game_type_id) ==
    /\ Contains(url, GraphqlToken)
    /\ Contains(url, GameTypeIdToken(game_type_id))
    /\ Contains(url, GamesToken)
    /\ ~Contains(url, GamesPagesToken)

\* the for loop of _find_game_response from the i-th request on: the index of
\* the exchange it returns the body of (0: none) and the value it returns
RECURSIVE scan_requests(_, _, _)
scan_requests(reqs, game_type_id, i) ==
    IF i > Len(reqs) THEN [idx |-> 0, data |-> None]
    ELSE IF reqs[i].response = NoResponse THEN scan_requests(reqs, game_type_id, i + 1)
    ELSE IF url_matches(reqs[i].url, game_type_id)
         THEN IF loads(reqs[i].response) # Raise
              THEN [idx |-> i, data |-> loads(reqs[i].response)]
              ELSE scan_requests(reqs, game_type_id, i + 1)
         ELSE scan_requests(reqs, game_type_id, i + 1)

\* _find_game_response that gives up at the first matching exchange, parsed or not
RECURSIVE scan_no_fall_through(_, _, _)
scan_no_fall_through(reqs, game_type_id, i) ==
    IF i > Len(reqs) THEN [idx |-> 0, data |-> None]
    ELSE IF reqs[i].response = NoResponse THEN scan_no_fall_through(reqs, game_type_id, i + 1)
    ELSE IF url_matches(reqs[i].url, game_type_id)
         THEN IF loads(reqs[i].response) # Raise
              THEN [idx |-> i, data |-> loads(reqs[i].response)]
              ELSE [idx |-> 0, data |-> None]
         ELSE scan_no_fall_through(reqs, game_type_id, i + 1)

find_game_response_gives_up(reqs, game_type_id) ==
    scan_no_fall_through(reqs, game_type_id, 1)

\* _find_game_response that keeps the last matching exchange instead of the first
RECURSIVE scan_last(_, _, _)
scan_last(reqs, game_type_id, i) ==
    IF i < 1 THEN [idx |-> 0, data |-> None]
    ELSE IF reqs[i].response = NoResponse THEN scan_last(reqs, game_type_id, i - 1)
    ELSE IF url_matches(reqs[i].url, game_type_id) /\ loads(reqs[i].response) # Raise
         THEN [idx |-> i, data |-> loads(reqs[i].response)]
         ELSE scan_last(reqs, game_type_id, i - 1)

find_game_response_last(reqs, game_type_id) ==
    scan_last(reqs, game_type_id, Len(reqs))

\* _find_game_response(game_type_id) over the snapshot reqs
find_game_response(reqs, game_type_id) ==
    scan_requests(reqs, game_type_id, 1)

---------------------------------------------------------------------------
(* The six extractors: the try block of each _find_<game>_solution.         *)
(* An extractor gives Raise, or the value it returns (ret) and the keys it  *)
(* writes into results["data"] (store).                                     *)

\* data["included"][0]["gamePuzzle"][puzzle_key]
game_puzzle(data, puzzle_key) ==
    py_key(py_key(py_index(py_key(data, "included"), 0), "gamePuzzle"), puzzle_key)

\* a Python tuple (a, b)
Pair(a, b) == JList(<<a, b>>)

extract_pinpoint(data) ==
    LET sol == py_index(py_key(game_puzzle(data, "blueprintGamePuzzle"), "solutions"), 0)
    IN IF sol = Raise THEN Raise
       ELSE [ret |-> sol, store |-> [pinpoint |-> sol]]

\* sorted(): the place of x in a list already sorted by rank, after its equals
RECURSIVE insert_rung(_, _)
insert_rung(sorted, x) ==
    IF sorted = <<>> THEN <<x>>
    ELSE IF x.rank.v < Head(sorted).rank.v THEN <<x>> \o sorted
    ELSE <<Head(sorted)>> \o insert_rung(Tail(sorted), x)

\* the rungs left in payload order
sort_rungs_skipped(rungs) == rungs

RECURSIVE sort_rungs(_)
sort_rungs(rungs) ==
    IF rungs = <<>> THEN <<>>
    ELSE insert_rung(sort_rungs(SubSeq(rungs, 1, Len(rungs) - 1)), rungs[Len(rungs)])

\* Ranks that are numbers are ordered; two ranks that are not both numbers
\* are taken as not comparable (None, dicts; text ranks are left out of the
\* bodies the model captures).
extract_crossclimb(data) ==
    LET rungs == py_iter(py_key(game_puzzle(data, "crossClimbGamePuzzle"), "rungs"))
    IN IF rungs = Raise THEN Raise
       ELSE LET keyed == [i \in 1..Len(rungs.v) |->
                            [rank |-> py_key(rungs.v[i], "solutionRungIndex"),
                             word |-> py_key(rungs.v[i], "word")]]
            IN IF \E i \in 1..Len(keyed) : keyed[i].rank = Raise THEN Raise
               ELSE IF Len(keyed) > 1 /\ \E i \in 1..Len(keyed) : keyed[i].rank.t # "num"
                    THEN Raise
               ELSE LET sorted_rungs == IF Len(keyed) > 1 THEN sort_rungs(keyed) ELSE keyed
                    IN IF \E i \in 1..Len(keyed) : keyed[i].word = Raise THEN Raise
                       ELSE LET sol == JList([i \in 1..Len(sorted_rungs) |->
                                            Pair(sorted_rungs[i].rank, sorted_rungs[i].word)])
                            IN [ret |-> sol, store |-> [crossclimb |-> sol]]

extract_zip(data) ==
    LET trail == game_puzzle(data, "trailGamePuzzle")
        sequence == py_key(trail, "orderedSequence")
        sol == py_key(trail, "solution")
        grid == py_key(trail, "gridSize")
    IN IF sequence = Raise \/ sol = Raise \/ grid = Raise THEN Raise
       ELSE [ret |-> sequence,
             store |-> [zip |-> sol, zip_sequence |-> sequence, zip_grid |-> grid]]

extract_queens(data) ==
    LET puzzle == game_puzzle(data, "queensGamePuzzle")
        queens == py_key(puzzle, "solution")
        board == py_key(puzzle, "colorGrid")
        grid == py_key(puzzle, "gridSize")
        qs == py_iter(queens)
        rows == py_iter(board)
    IN IF queens = Raise \/ board = Raise \/ grid = Raise \/ qs = Raise \/ rows = Raise
       THEN Raise
       ELSE IF \E i \in 1..Len(qs.v) :
                   py_key(qs.v[i], "row") = Raise \/ py_key(qs.v[i], "col") = Raise
            THEN Raise
       ELSE IF \E i \in 1..Len(rows.v) : py_key(rows.v[i], "colors") = Raise THEN Raise
       ELSE LET sol == JList([i \in 1..Len(qs.v) |->
                                 Pair(py_key(qs.v[i], "row"), py_key(qs.v[i], "col"))])
                board_setup == JList([i \in 1..Len(rows.v) |-> py_key(rows.v[i], "colors")])
            IN [ret |-> sol,
                store |-> [queens |-> sol, queens_board |-> board_setup, queens_grid |-> grid]]

\* the text "ONE"
ONE == JStr(<<"O", "N", "E">>)

\* a decoder that knows "ONE" and "TWO" and drops every other token
extract_tango_dropping(data) ==
    LET solution_array == py_iter(py_key(game_puzzle(data, "lotkaGamePuzzle"), "solution"))
    IN IF solution_array = Raise THEN Raise
       ELSE LET known == SelectSeq(solution_array.v,
                                   LAMBDA item : item \in {ONE, JStr(<<"T", "W", "O">>)})
                sol == JStr([i \in 1..Len(known) |-> IF known[i] = ONE THEN "1" ELSE "0"])
            IN [ret |-> sol, store |-> [tango |-> sol]]

extract_tango(data) ==
    LET solution_array == py_iter(py_key(game_puzzle(data, "lotkaGamePuzzle"), "solution"))
    IN IF solution_array = Raise THEN Raise
       ELSE LET sol == JStr([i \in 1..Len(solution_array.v) |->
                               IF solution_array.v[i] = ONE THEN "1" ELSE "0"])
            IN [ret |-> sol, store |-> [tango |-> sol]]

\* the text "included"
IncludedText == <<"i", "n", "c", "l", "u", "d", "e", "d">>

\* "included" in data: a Python bool, or Raise
included_in(data) ==
    CASE data.t = "obj" -> JBool("included" \in DOMAIN data.v)
      [] data.t = "list" -> JBool(\E i \in 1..Len(data.v) : data.v[i] = JStr(IncludedText))
      [] data.t = "str" -> JBool(Contains(data.v, IncludedText))
      [] OTHER -> Raise

\* the first loop over data["included"]: the puzzle of the first item that has
\* one, None when no item has one, Raise
RECURSIVE first_mini_sudoku_puzzle(_, _)
first_mini_sudoku_puzzle(items, i) ==
    IF i > Len(items) THEN None
    ELSE LET gp == py_get(items[i], "gamePuzzle")
         IN IF gp = Raise THEN Raise
            ELSE IF ~Truthy(gp) THEN first_mini_sudoku_puzzle(items, i + 1)
            ELSE LET p == py_get(gp, "miniSudokuGamePuzzle")
                 IN IF p = Raise THEN Raise
                    ELSE IF Truthy(p) THEN p
                    ELSE first_mini_sudoku_puzzle(items, i + 1)

\* the text "Unknown"
UnknownText == <<"U", "n", "k", "n", "o", "w", "n">>

\* the grid size mini sudoku takes when the payload names none
DefaultGridSize == 6

\* len(range(n)): the number of rounds of "for i in range(n)", or Raise
range_len(n) ==
    CASE n.t = "num" -> JNum(IF n.v > 0 THEN n.v ELSE 0)
      [] n.t = "bool" -> JNum(IF n.v THEN 1 ELSE 0)
      [] OTHER -> Raise

\* seq[lo:hi] for 0 <= lo <= hi: the slice stops at the end of seq
py_slice(seq, lo, hi) ==
    SubSeq(seq, lo + 1, IF hi < Len(seq) THEN hi ELSE Len(seq))

\* rows one item short: end_idx = start_idx + grid_size - 1
logged_rows_short(flat, grid_size) ==
    [i \in 1..(IF grid_size > 0 THEN grid_size ELSE 0) |->
        py_slice(flat, (i - 1) * grid_size, (i - 1) * grid_size + grid_size - 1)]

\* for i in range(grid_size): row = solution[start_idx:end_idx]; the rows
\* logged, in order
logged_rows(flat, grid_size) ==
    [i \in 1..(IF grid_size > 0 THEN grid_size ELSE 0) |->
        py_slice(flat, (i - 1) * grid_size, (i - 1) * grid_size + grid_size)]

\* lines 285-307: the fields of the puzzle found, the rows logged, the store
mini_sudoku_fields(puzzle) ==
    LET sol == py_key(puzzle, "solution")
        grid_size == py_get_default(puzzle, "gridRowSize", JNum(DefaultGridSize))
        preset_cells == py_get_default(puzzle, "presetCellIdxes", JList(<<>>))
        title == py_get_default(puzzle, "name", JStr(UnknownText))
    IN IF sol = Raise \/ grid_size = Raise \/ preset_cells = Raise \/ title = Raise
       THEN Raise
       ELSE IF range_len(grid_size) = Raise THEN Raise
       ELSE IF range_len(grid_size).v > 0 /\ sol.t \notin {"list", "str"} THEN Raise
       ELSE [ret |-> sol,
             store |-> [mini_sudoku |->
                           JObj([solution |-> sol, grid_size |-> grid_size,
                                 preset_cells |-> preset_cells, title |-> title])]]

\* the early "return None" of lines 279 and 283, inside the try block
NoPuzzle == [ret |-> None, store |-> <<>>]

extract_mini_sudoku(data) ==
    LET has == included_in(data)
    IN IF has = Raise THEN Raise
       ELSE IF ~has.v THEN NoPuzzle
       ELSE LET included == py_key(data, "included")
            IN IF included = Raise THEN Raise
               ELSE IF ~Truthy(included) THEN NoPuzzle
               ELSE LET items == py_iter(included)
                    IN IF items = Raise THEN Raise
                       ELSE LET puzzle == first_mini_sudoku_puzzle(items.v, 1)
                            IN IF puzzle = Raise THEN Raise
                               ELSE IF ~Truthy(puzzle) THEN NoPuzzle
                               ELSE mini_sudoku_fields(puzzle)

\* the try block of _find_<g>_solution
extract(g, data) ==
    CASE g = "pinpoint" -> extract_pinpoint(data)
      [] g = "crossclimb" -> extract_crossclimb(data)
      [] g = "zip" -> extract_zip(data)
      [] g = "queens" -> extract_queens(data)
      [] g = "tango" -> extract_tango(data)
      [] g = "mini_sudoku" -> extract_mini_sudoku(data)

---------------------------------------------------------------------------
(* _find_<game>_solution: classifier, then the extractor inside try/except  *)

\* a try block without its "except Exception": the exception reaches the caller
try_without_except(e, res) ==
    IF e = Raise THEN [ret |-> None, results |-> res, exc |-> TRUE]
    ELSE [ret |-> e.ret, results |-> e.store @@ res, exc |-> FALSE]

\* try: ... return solution / except Exception: log, then return None
try_except(e, res) ==
    IF e = Raise THEN [ret |-> None, results |-> res, exc |-> FALSE]
    ELSE [ret |-> e.ret, results |-> e.store @@ res, exc |-> FALSE]

\* the body of _find_<game>_solution after the classifier gave r, with e the
\* outcome of the try block on r.data and res = results["data"]: the value
\* returned (ret), results["data"] afterwards, whether an exception left the
\* call (exc), and the exchange the classifier picked (idx)
if_data(r, e, res) ==
    [idx |-> r.idx] @@
        (IF Truthy(r.data) THEN try_except(e, res)
         ELSE [ret |-> None, results |-> res, exc |-> FALSE])

find_pinpoint_solution(reqs, res) ==
    if_data(find_game_response(reqs, GAME_TYPE_IDS["pinpoint"]),
            extract_pinpoint(find_game_response(reqs, GAME_TYPE_IDS["pinpoint"]).data), res)

find_crossclimb_solution(reqs, res) ==
    if_data(find_game_response(reqs, GAME_TYPE_IDS["crossclimb"]),
            extract_crossclimb(find_game_response(reqs, GAME_TYPE_IDS["crossclimb"]).data), res)

find_zip_solution(reqs, res) ==
    if_data(find_game_response(reqs, GAME_TYPE_IDS["zip"]),
            extract_zip(find_game_response(reqs, GAME_TYPE_IDS["zip"]).data), res)

find_queens_solution(reqs, res) ==
    if_data(find_game_response(reqs, GAME_TYPE_IDS["queens"]),
            extract_queens(find_game_response(reqs, GAME_TYPE_IDS["queens"]).data), res)

find_tango_solution(reqs, res) ==
    if_data(find_game_response(reqs, GAME_TYPE_IDS["tango"]),
            extract_tango(find_game_response(reqs, GAME_TYPE_IDS["tango"]).data), res)

find_mini_sudoku_solution(reqs, res) ==
    if_data(find_game_response(reqs, GAME_TYPE_IDS["mini_sudoku"]),
            extract_mini_sudoku(find_game_response(reqs, GAME_TYPE_IDS["mini_sudoku"]).data), res)

\* self._find_<g>_solution(), as solve_<g> calls it
find_solution(g, reqs, res) ==
    CASE g = "pinpoint" -> find_pinpoint_solution(reqs, res)
      [] g = "crossclimb" -> find_crossclimb_solution(reqs, res)
      [] g = "zip" -> find_zip_solution(reqs, res)
      [] g = "queens" -> find_queens_solution(reqs, res)
      [] g = "tango" -> find_tango_solution(reqs, res)
      [] g = "mini_sudoku" -> find_mini_sudoku_solution(reqs, res)

---------------------------------------------------------------------------
(* The bodies the page may answer with while a game is being solved *)

Chars1(a) == JStr(<<a>>)

\* {"included": [{"gamePuzzle": {puzzle_key: puzzle}}]}
Included(puzzle_key, puzzle) ==
    JObj([included |-> JList(<<JObj([gamePuzzle |-> JObj(puzzle_key :> puzzle)])>>)])

PuzzleKey ==
    [g \in Games |->
        CASE g = "pinpoint" -> "blueprintGamePuzzle"
          [] g = "crossclimb" -> "crossClimbGamePuzzle"
          [] g = "zip" -> "trailGamePuzzle"
          [] g = "queens" -> "queensGamePuzzle"
          [] g = "tango" -> "lotkaGamePuzzle"
          [] g = "mini_sudoku" -> "miniSudokuGamePuzzle"]

\* a payload of the shape the extractor of g expects
GoodPuzzle ==
    [g \in Games |->
        CASE g = "pinpoint" ->
               JObj([solutions |-> JList(<<JStr(<<"k", "e", "y">>)>>)])
          [] g = "crossclimb" ->
               JObj([rungs |-> JList(<<
                   JObj([solutionRungIndex |-> JNum(1), word |-> JStr(<<"c", "o", "t">>)]),
                   JObj([solutionRungIndex |-> JNum(0), word |-> JStr(<<"c", "a", "t">>)])>>)])
          [] g = "zip" ->
               JObj([orderedSequence |-> JList(<<JNum(2), JNum(1)>>),
                     solution |-> JList(<<JNum(2), JNum(3), JNum(1)>>),
                     gridSize |-> JNum(2)])
          [] g = "queens" ->
               JObj([solution |-> JList(<<JObj([row |-> JNum(0), col |-> JNum(1)])>>),
                     colorGrid |-> JList(<<JObj([colors |-> JList(<<JNum(0), JNum(1)>>)])>>),
                     gridSize |-> JNum(2)])
          [] g = "tango" ->
               JObj([solution |-> JList(<<ONE, JStr(<<"T", "W", "O">>), ONE>>)])
          [] g = "mini_sudoku" ->
               JObj([solution |-> JList(<<JNum(1), JNum(2), JNum(2), JNum(1)>>),
                     gridRowSize |-> JNum(2),
                     presetCellIdxes |-> JList(<<JNum(0)>>),
                     name |-> Chars1("t")])]

\* a payload with a value of the wrong type that the extractor's operations
\* accept all the same: text where a list is expected, a number where text is
WronglyTypedPuzzle ==
    [g \in Games |->
        CASE g = "pinpoint" -> JObj([solutions |-> JStr(<<"k", "e", "y">>)])
          [] g = "crossclimb" ->
               JObj([rungs |-> JList(<<JObj([solutionRungIndex |-> JNum(0),
                                             word |-> JNum(5)])>>)])
          [] g = "zip" ->
               JObj([orderedSequence |-> JStr(<<"2", "1">>),
                     solution |-> JList(<<JNum(2), JNum(3), JNum(1)>>),
                     gridSize |-> JNum(2)])
          [] g = "queens" ->
               JObj([solution |-> JList(<<JObj([row |-> Chars1("a"), col |-> JNum(1)])>>),
                     colorGrid |-> JList(<<JObj([colors |-> JList(<<JNum(0), JNum(1)>>)])>>),
                     gridSize |-> JNum(2)])
          [] g = "tango" -> JObj([solution |-> ONE])
          [] g = "mini_sudoku" ->
               JObj([solution |-> JStr(<<"1", "2", "2", "1">>), gridRowSize |-> JNum(2)])]

\* a payload of the shape the extractor of g expects whose solution is empty
EmptyValuePuzzle ==
    [g \in Games |->
        CASE g = "pinpoint" -> JObj([solutions |-> JList(<<JStr(<<>>)>>)])
          [] g = "crossclimb" -> JObj([rungs |-> JList(<<>>)])
          [] g = "zip" ->
               JObj([orderedSequence |-> JList(<<>>), solution |-> JList(<<>>),
                     gridSize |-> JNum(0)])
          [] g = "queens" ->
               JObj([solution |-> JList(<<>>), colorGrid |-> JList(<<>>),
                     gridSize |-> JNum(0)])
          [] g = "tango" -> JObj([solution |-> JList(<<>>)])
          [] g = "mini_sudoku" -> JObj([solution |-> JList(<<>>), gridRowSize |-> JNum(0)])]

GoodBody(g) == JsonBody(Included(PuzzleKey[g], GoodPuzzle[g]))
EmptyValueBody(g) == JsonBody(Included(PuzzleKey[g], EmptyValuePuzzle[g]))
WronglyTypedBody(g) == JsonBody(Included(PuzzleKey[g], WronglyTypedPuzzle[g]))
\* the puzzle of g without the field that carries its solution
MissingKeyBody(g) == JsonBody(Included(PuzzleKey[g], JObj([puzzleId |-> JNum(1)])))
\* {"included": []}
EmptyIncludedBody == JsonBody(JObj([included |-> JList(<<>>)]))
\* {"included": 5}: a number where the list is expected
NumberIncludedBody == JsonBody(JObj([included |-> JNum(5)]))

OtherEndpoint == <<"voyager/api/feed">>

\* another game than g
OtherGame(g) == IF g = "tango" THEN "queens" ELSE "tango"

\* a game type id that is not g's and starts with the digits of g's
LongerId(g) == GAME_TYPE_IDS[g] * 10 + 2

\* the exchanges captured while g is being solved
PuzzleExchanges(g) ==
    LET url == GameUrl(GraphqlToken, GAME_TYPE_IDS[g], GamesToken)
    IN { Exchange(url, r) :
            r \in {NoResponse, BytesBody, TextBody, GoodBody(g), WronglyTypedBody(g),
                   MissingKeyBody(g), EmptyIncludedBody, NumberIncludedBody,
                   EmptyValueBody(g)} }
       \cup { Exchange(GameUrl(GraphqlToken, GAME_TYPE_IDS[g], GamesPagesToken), GoodBody(g)),
              Exchange(GameUrl(GraphqlToken, LongerId(g), GamesToken), GoodBody(g)),
              Exchange(GameUrl(OtherEndpoint, GAME_TYPE_IDS[g], GamesToken), GoodBody(g)),
              Exchange(GameUrl(GraphqlToken, GAME_TYPE_IDS[OtherGame(g)], GamesToken),
                       GoodBody(OtherGame(g))) }

---------------------------------------------------------------------------
(* The retrieval loop of solve_<game> *)

\* no user configured: no per-user filter
NoUser == <<>>
NoLeaderboard == <<>>
\* no fetch issued
NoFetch == <<>>

\* GameSolver.__init__: a new browser session, an empty results store
Constructed ==
    /\ requests = <<>>
    /\ results = <<>>
    /\ pc = "idle"
    /\ game = "none"
    /\ elapsed = 0
    /\ solution = None
    /\ polls = 0
    /\ found = 0
    /\ leaderboard = NoLeaderboard
    /\ saves = 0
    /\ calls = 0
    /\ driver = "open"
    /\ csrf_token = None
    /\ last_fetch = NoFetch
    /\ recorded = <<>>
    /\ attempt = 0

Init == Constructed /\ user = NoUser /\ now = 0

\* the loop test with the timeout taken one second short
loop_continues_short(el, sol) ==
    el + 1 < TimeoutSeconds /\ ~Truthy(sol)

\* while time.time() < end_time and not solution
loop_continues(el, sol) ==
    el < TimeoutSeconds /\ ~Truthy(sol)

\* solve_<g> up to the end of _start_game: the log is cleared, the page loads
StartGame(g) ==
    /\ pc = "idle"
    /\ requests' = <<>>
    /\ game' = g
    /\ pc' = "starting"
    /\ UNCHANGED <<results, elapsed, solution, polls, found, boardVars, scriptVars>>

\* the browser appends an exchange to the log while the core waits
Capture ==
    /\ pc \in {"starting", "sleeping"}
    /\ Len(requests) < MaxRequests
    /\ \E e \in PuzzleExchanges(game) : requests' = Append(requests, e)
    /\ UNCHANGED <<puzzleVars, boardVars, scriptVars>>

\* end_time = time.time() + timeout_seconds; solution = None; first loop test
EnterLoop ==
    /\ pc = "starting"
    /\ elapsed' = 0
    /\ solution' = None
    /\ pc' = IF loop_continues(0, None) THEN "polling" ELSE "returned"
    /\ UNCHANGED <<requests, results, game, polls, found, boardVars, scriptVars>>

\* solution = self._find_<game>_solution(); if solution: break
Polled(r) ==
    /\ solution' = r.ret
    /\ results' = r.results
    /\ found' = r.idx
    /\ pc' = IF r.exc THEN "crashed"
             ELSE IF Truthy(r.ret) THEN "returned" ELSE "sleeping"

Poll ==
    /\ pc = "polling"
    /\ Polled(find_solution(game, requests, results))
    /\ polls' = polls + 1
    /\ UNCHANGED <<requests, game, elapsed, boardVars, scriptVars>>

\* time.sleep(1), which takes d seconds, then the loop test
Sleep(d) ==
    /\ pc = "sleeping"
    /\ elapsed' = elapsed + d
    /\ pc' = IF loop_continues(elapsed + d, solution) THEN "polling" ELSE "returned"
    /\ UNCHANGED <<requests, results, game, solution, polls, found, boardVars, scriptVars>>

Next ==
    \/ \E g \in Games : StartGame(g)
    \/ Capture
    \/ EnterLoop
    \/ Poll
    \/ \E d \in 1..(1 + MaxOversleep) : Sleep(d)

Spec == Init /\ [][Next]_vars

\* a step of the running call: the page load ends, a poll returns, a sleep ends
LoopStep ==
    /\ pc \in {"starting", "polling", "sleeping"}
    /\ pc' \in {"polling", "sleeping", "returned", "crashed"}
    /\ pc' # pc

\* the single thread of control is never suspended for ever: _start_game
\* returns, a poll returns, time.sleep(1) returns
FairSpec == Spec /\ WF_pc(LoopStep)

---------------------------------------------------------------------------
(* One call of a decoder on a captured payload *)

\* the sequences over S of length at most n
SeqsUpTo(S, n) == UNION {[1..k -> S] : k \in 0..n}

Rung(rank, word) == JObj([solutionRungIndex |-> JNum(rank), word |-> Chars1(word)])

\* lists of rungs, ranks repeated or not, in any order
RungLists == SeqsUpTo({Rung(rank, word) : rank \in 0..2, word \in {"a", "b"}}, MaxItems)

\* tango tokens: the recognised one, the other one of the game, and values
\* the game does not use
TangoTokens == {ONE, JStr(<<"T", "W", "O">>), JStr(<<"o", "n", "e">>), JNum(1), JNull}

TokenLists == SeqsUpTo(TangoTokens, MaxItems)

FlatSolutions == SeqsUpTo({JNum(1), JNum(2)}, MaxCells)

\* mini sudoku puzzles: a flat solution, with or without gridRowSize
SudokuPuzzles ==
    {JObj([solution |-> JList(flat)]) : flat \in FlatSolutions}
    \cup {JObj([solution |-> JList(flat), gridRowSize |-> JNum(n)]) :
              flat \in FlatSolutions, n \in (-1)..MaxGridRowSize}

DecodedGames == {"crossclimb", "tango", "mini_sudoku"}

\* the puzzles handed to the decoder of g
DecoderInputs(g) ==
    CASE g = "crossclimb" -> {JObj([rungs |-> JList(rungs)]) : rungs \in RungLists}
      [] g = "tango" -> {JObj([solution |-> JList(tokens)]) : tokens \in TokenLists}
      [] g = "mini_sudoku" -> SudokuPuzzles

\* the log that holds one exchange for g with puzzle p in its body
PayloadLog(g, p) ==
    <<Exchange(GameUrl(GraphqlToken, GAME_TYPE_IDS[g], GamesToken),
               JsonBody(Included(PuzzleKey[g], p)))>>

\* a session in which the page has answered with one payload for one game
DecodeInit ==
    /\ game \in DecodedGames
    /\ requests \in {PayloadLog(game, p) : p \in DecoderInputs(game)}
    /\ results = <<>>
    /\ pc = "captured"
    /\ elapsed = 0
    /\ solution = None
    /\ polls = 0
    /\ found = 0
    /\ user = NoUser
    /\ leaderboard = NoLeaderboard
    /\ saves = 0
    /\ calls = 0
    /\ driver = "open"
    /\ csrf_token = None
    /\ last_fetch = NoFetch
    /\ now = 0
    /\ recorded = <<>>
    /\ attempt = 0

\* what one call of _find_<game>_solution leaves behind
Decoded(r) ==
    /\ solution' = r.ret
    /\ results' = r.results
    /\ found' = r.idx
    /\ pc' = IF r.exc THEN "crashed" ELSE "decoded"

\* solution = self._find_<game>_solution()
FindSolution ==
    /\ pc = "captured"
    /\ Decoded(find_solution(game, requests, results))
    /\ polls' = polls + 1
    /\ UNCHANGED <<requests, game, elapsed, boardVars, scriptVars>>

DecodeNext == FindSolution

DecodeSpec == DecodeInit /\ [][DecodeNext]_vars

---------------------------------------------------------------------------
(* find_leaderboard_data *)

QueryIdA == <<"c37afe5a2cada33789b5a636e62147ae">>
QueryIdB == <<"370a22a07dce5feba0a603ed03e4c908">>

\* GAME_IDS: the game's id in the leaderboard request
GAME_IDS ==
    [g \in Games |->
        CASE g = "pinpoint" -> <<"1">>
          [] g = "crossclimb" -> <<"2">>
          [] g = "zip" -> <<"6">>
          [] g = "tango" -> <<"5">>
          [] g = "queens" -> <<"3">>
          [] g = "mini_sudoku" -> <<"7">>]

\* the URL get_leaderboard_via_fetch requests (url_start, the game's id, the
\* day count, url_end), with the query id as a parameter
LeaderboardUrl(g, days, query_id) ==
    <<"https://www.linkedin.com/">> \o GraphqlToken \o <<"?variables=(gameUrn:(...%2C">>
        \o GAME_IDS[g] \o <<"%2C">> \o Digits(days)
        \o <<"%29,start:0,count:15)&queryId=">> \o ConnectionsToken \o <<".">> \o query_id

\* the test of the list comprehension that builds filtered_requests
leaderboard_url_matches(url) ==
    /\ Contains(url, GraphqlToken)
    /\ Contains(url, ConnectionsToken)
    /\ (Contains(url, QueryIdA) \/ Contains(url, QueryIdB))

\* leaderboard_data[player_name] = player_score, the earlier value kept
store_entry_keep_first(lb, player_name, player_score) ==
    lb @@ (player_name :> player_score)

\* leaderboard_data[player_name] = player_score
store_entry(lb, player_name, player_score) ==
    (player_name :> player_score) @@ lb

\* entry.get("playerDetails").get("player").get("profile").get("firstName")
player_name_of(entry) ==
    py_get(py_get(py_get(py_get(entry, "playerDetails"), "player"), "profile"), "firstName")

\* the dict player_score built from an entry, or Raise
player_score_of(entry) ==
    IF py_get(py_get(entry, "gameScore"), "timeElapsed") = Raise
       \/ py_get(py_get(entry, "gameScore"), "totalGuessCount") = Raise
       \/ py_get(entry, "isFlawless") = Raise
    THEN Raise
    ELSE JObj([time |-> py_get(py_get(entry, "gameScore"), "timeElapsed"),
               guessCount |-> py_get(py_get(entry, "gameScore"), "totalGuessCount"),
               flawless |-> py_get(entry, "isFlawless")])

\* the loop "for entry in entries" from the i-th entry on: the mapping when
\* the loop ends or an entry raises, and whether one raised
RECURSIVE merge_entries(_, _, _)
merge_entries(entries, i, lb) ==
    IF i > Len(entries) THEN [lb |-> lb, exc |-> FALSE]
    ELSE IF player_name_of(entries[i]) = Raise
            \/ player_score_of(entries[i]) = Raise
            \/ player_name_of(entries[i]).t \in {"list", "obj"}
         THEN [lb |-> lb, exc |-> TRUE]
         ELSE merge_entries(entries, i + 1,
                  store_entry(lb, player_name_of(entries[i]), player_score_of(entries[i])))

OptedInKey == "identityDashGameConnectionsEntitiesByOptedInToLeaderboardAndPlayed"
SnapshotKey == "identityDashGameConnectionsEntitiesByLeaderboardSnapshotV2"

\* a dict with no key: the default of data.get("data", {}) and of the lookups after it
EmptyDict == JObj([k \in {} |-> JNull])

\* entries_temp.get(key, {}).get("elements", [])
elements_under(entries_temp, key) ==
    py_get_default(py_get_default(entries_temp, key, EmptyDict), "elements", JList(<<>>))

\* lines 450-454: the entries of a parsed body, or Raise; "in" needs a
\* container and .get a dict, so entries_temp must be a dict
entries_of(data) ==
    IF py_get_default(data, "data", EmptyDict) = Raise THEN Raise
    ELSE IF py_get_default(data, "data", EmptyDict).t # "obj" THEN Raise
    ELSE IF OptedInKey \in DOMAIN py_get_default(data, "data", EmptyDict).v
         THEN elements_under(py_get_default(data, "data", EmptyDict), OptedInKey)
         ELSE elements_under(py_get_default(data, "data", EmptyDict), SnapshotKey)

\* len(entries) of the log line, then "for entry in entries": the items, or Raise
entries_list(entries) ==
    IF entries.t \in {"list", "str", "obj"} THEN py_iter(entries) ELSE Raise

\* the try block on one exchange: the mapping afterwards, and whether it raised
merge_exchange(e, lb) ==
    IF loads(e.response) = Raise THEN [lb |-> lb, exc |-> TRUE]
    ELSE IF entries_of(loads(e.response)) = Raise THEN [lb |-> lb, exc |-> TRUE]
    ELSE IF entries_list(entries_of(loads(e.response))) = Raise THEN [lb |-> lb, exc |-> TRUE]
    ELSE merge_entries(entries_list(entries_of(loads(e.response))).v, 1, lb)

\* the loop over filtered_requests from the i-th request on; the except
\* clause logs and the loop goes on with the next request
RECURSIVE scan_leaderboard(_, _, _)
scan_leaderboard(reqs, i, lb) ==
    IF i > Len(reqs) THEN lb
    ELSE IF ~leaderboard_url_matches(reqs[i].url) THEN scan_leaderboard(reqs, i + 1, lb)
    ELSE IF reqs[i].response.k = "none" THEN scan_leaderboard(reqs, i + 1, lb)
    ELSE scan_leaderboard(reqs, i + 1, merge_exchange(reqs[i], lb).lb)

\* the loop with the try/except around it instead of inside it: the first
\* exchange that raises ends the scan
RECURSIVE scan_leaderboard_aborting(_, _, _)
scan_leaderboard_aborting(reqs, i, lb) ==
    IF i > Len(reqs) THEN lb
    ELSE IF ~leaderboard_url_matches(reqs[i].url) THEN scan_leaderboard_aborting(reqs, i + 1, lb)
    ELSE IF reqs[i].response.k = "none" THEN scan_leaderboard_aborting(reqs, i + 1, lb)
    ELSE IF merge_exchange(reqs[i], lb).exc THEN merge_exchange(reqs[i], lb).lb
    ELSE scan_leaderboard_aborting(reqs, i + 1, merge_exchange(reqs[i], lb).lb)

find_leaderboard_data_aborting(reqs) ==
    scan_leaderboard_aborting(reqs, 1, <<>>)

\* find_leaderboard_data() over the snapshot reqs: the mapping it returns
find_leaderboard_data(reqs) ==
    scan_leaderboard(reqs, 1, <<>>)

---------------------------------------------------------------------------
(* The leaderboard run: get_leaderboard_via_fetch, then find_leaderboard_data *)

Text4(a, b, c, d) == JStr(<<a, b, c, d>>)

Mads == Text4("M", "a", "d", "s")
Anna == Text4("A", "n", "n", "a")
Bo == JStr(<<"B", "o">>)

\* the player-identity tokens of the three players
MadsUrn == JStr(<<"urn:li:fsd_profile:", "M", "A", "D", "S">>)
AnnaUrn == JStr(<<"urn:li:fsd_profile:", "A", "N", "N", "A">>)
BoUrn == JStr(<<"urn:li:fsd_profile:", "B", "O">>)

\* the identity substring of the user main.py constructs the solver for
ConfiguredUser == <<"m", "a", "d", "s">>

PlayerDetails(name, urn) ==
    JObj([player |-> JObj([entityUrn |-> urn, profile |-> JObj([firstName |-> name])])])

\* a leaderboard record with a score
ScoredEntry(name, urn, seconds, flawless) ==
    JObj([playerDetails |-> PlayerDetails(name, urn),
          gameScore |-> JObj([timeElapsed |-> JNum(seconds), totalGuessCount |-> JNum(2)]),
          isFlawless |-> JBool(flawless)])

\* a record with a score that names neither a guess count nor the flawless flag
BareEntry(name, urn, seconds) ==
    JObj([playerDetails |-> PlayerDetails(name, urn),
          gameScore |-> JObj([timeElapsed |-> JNum(seconds)])])

\* a placeholder record: no gameScore
PendingEntry(name, urn) ==
    JObj([playerDetails |-> PlayerDetails(name, urn)])

\* {"data": {key: {"elements": entries}}}
LeaderboardBody(key, entries) ==
    JsonBody(JObj([data |-> JObj(key :> JObj([elements |-> JList(entries)]))]))

\* the exchanges captured after the leaderboard of g was requested
LeaderboardExchanges(g) ==
    LET fetched == LeaderboardUrl(g, 10, QueryIdB)
        older == LeaderboardUrl(g, 10, QueryIdA)
        first == LeaderboardBody(OptedInKey,
                     <<ScoredEntry(Mads, MadsUrn, 40, TRUE), BareEntry(Anna, AnnaUrn, 30)>>)
        second == LeaderboardBody(SnapshotKey, <<ScoredEntry(Mads, MadsUrn, 50, FALSE)>>)
        pending == LeaderboardBody(OptedInKey,
                     <<BareEntry(Anna, AnnaUrn, 35), PendingEntry(Bo, BoUrn),
                       ScoredEntry(Mads, MadsUrn, 60, TRUE)>>)
    IN { Exchange(fetched, r) :
            r \in {first, second, pending, NoResponse, BytesBody, TextBody,
                   JsonBody(JObj([data |-> JNull]))} }
       \cup { Exchange(older, second),
              Exchange(LeaderboardUrl(g, 10, <<"0123456789abcdef0123456789abcdef">>), second),
              Exchange(GameUrl(GraphqlToken, GAME_TYPE_IDS[g], GamesToken), second) }

BoardInit == Constructed /\ user \in {NoUser, ConfiguredUser} /\ now = 0

\* get_leaderboard_via_fetch(g, csrf_token): the log is cleared and the fetch
\* issued; the call returns after its sleep. One round of fetch and scan is
\* followed: a further round starts from the same cleared log.
GetLeaderboardViaFetch(g) ==
    /\ pc = "idle"
    /\ requests' = <<>>
    /\ game' = g
    /\ pc' = "fetching"
    /\ UNCHANGED <<results, elapsed, solution, polls, found, boardVars, scriptVars>>

\* the browser appends an exchange to the log before the scan
CaptureAnswer ==
    /\ pc = "fetching"
    /\ Len(requests) < MaxAnswers
    /\ \E e \in LeaderboardExchanges(game) : requests' = Append(requests, e)
    /\ UNCHANGED <<puzzleVars, boardVars, scriptVars>>

\* leaderboard_local = solver.find_leaderboard_data()
FindLeaderboardData ==
    /\ pc = "fetching"
    /\ leaderboard' = find_leaderboard_data(requests)
    /\ pc' = "scanned"
    /\ UNCHANGED <<requests, results, game, elapsed, solution, polls, found, user, scriptVars>>

BoardNext ==
    \/ \E g \in Games : GetLeaderboardViaFetch(g)
    \/ CaptureAnswer
    \/ FindLeaderboardData

BoardSpec == BoardInit /\ [][BoardNext]_vars

---------------------------------------------------------------------------
(* A session: solve_all_games, cleanup and the main script *)

\* the order of the calls in solve_all_games, and of the keys of GAME_URLS
GameOrder == <<"pinpoint", "crossclimb", "zip", "queens", "tango", "mini_sudoku">>

IndexOf(g) == CHOOSE i \in 1..Len(GameOrder) : GameOrder[i] = g

\* try: ... finally: self.cleanup(): the cleanup runs whether the body raised or not
cleanup_in_finally(raised) == TRUE

\* the clock of the session, in hours since 2024-04-30 00:00: 2025-12-01 10:00
SessionClock == 580 * 24 + 10

SessionInit == Constructed /\ user = NoUser /\ now = SessionClock

\* a client calls solver.solve_all_games()
CallSolveAllGames ==
    /\ pc = "idle"
    /\ calls < MaxCalls
    /\ calls' = calls + 1
    /\ game' = GameOrder[1]
    /\ pc' = "solve_all_games"
    /\ UNCHANGED <<requests, results, elapsed, solution, polls, found, boardVars,
                   saves, driver, csrf_token, last_fetch, now, recorded, attempt>>

\* one solve_<game>() call of solve_all_games returns a solution, returns
\* None or raises (the loop itself is followed in Spec); a browser that has
\* quit makes _start_game raise
SolveGame(outcome) ==
    /\ pc = "solve_all_games"
    /\ driver = "quit" => outcome = "raised"
    /\ results' = IF outcome = "found" THEN (game :> Chars1("s")) @@ results ELSE results
    /\ pc' = IF outcome = "raised" THEN "solve_all_games_raised"
             ELSE IF IndexOf(game) = Len(GameOrder) THEN "solve_all_games_done"
             ELSE "solve_all_games"
    /\ game' = IF outcome # "raised" /\ IndexOf(game) < Len(GameOrder)
               THEN GameOrder[IndexOf(game) + 1] ELSE game
    /\ UNCHANGED <<requests, elapsed, solution, polls, found, boardVars, scriptVars>>

\* cleanup(): self.driver.quit(), then save_results()
Cleanup ==
    /\ driver' = "quit"
    /\ saves' = saves + 1

\* the finally block of solve_all_games, then its return or the exception
SolveAllGamesFinally ==
    /\ pc \in {"solve_all_games_done", "solve_all_games_raised"}
    /\ IF cleanup_in_finally(pc = "solve_all_games_raised")
       THEN Cleanup ELSE UNCHANGED <<driver, saves>>
    /\ pc' = "idle"
    /\ UNCHANGED <<requests, results, game, elapsed, solution, polls, found, boardVars,
                   calls, csrf_token, last_fetch, now, recorded, attempt>>

\* a client calls solver.cleanup()
CallCleanup ==
    /\ pc = "idle"
    /\ calls < MaxCalls
    /\ calls' = calls + 1
    /\ Cleanup
    /\ UNCHANGED <<requests, results, pc, game, elapsed, solution, polls, found, boardVars,
                   csrf_token, last_fetch, now, recorded, attempt>>

\* GAME_START_DATES, as days after 2024-04-30
GAME_START_DAYS ==
    [g \in Games |->
        CASE g = "pinpoint" -> 0
          [] g = "crossclimb" -> 0
          [] g = "zip" -> 321
          [] g = "tango" -> 160
          [] g = "queens" -> 0
          [] g = "mini_sudoku" -> 468]

\* the day count with the launch taken at 09:00 of its day
days_since_start_from_nine(g, t) == (t - (GAME_START_DAYS[g] * 24 + 9)) \div 24

\* (datetime.now() - start_date).days at time t: start_date is 00:00 of the
\* launch day, .days rounds towards minus infinity
days_since_start(g, t) == (t - GAME_START_DAYS[g] * 24) \div 24

\* str(n) in an f-string
IntText(n) == IF n < 0 THEN <<"-">> \o Digits(-n) ELSE Digits(n)

\* str(csrf_token) in the f-string of the fetch script
TokenText(token) == IF token = None THEN <<"None">> ELSE token.v

\* the fetch of fetch_script: its URL and its csrf-token header
fetch_script(g, t, token) ==
    [url |-> <<"https://www.linkedin.com/">> \o GraphqlToken
                 \o <<"?variables=(gameUrn:(...%2C">> \o GAME_IDS[g] \o <<"%2C">>
                 \o IntText(days_since_start(g, t))
                 \o <<"%29,start:0,count:15)&queryId=">> \o ConnectionsToken
                 \o <<".">> \o QueryIdB,
     token |-> TokenText(token)]

\* value.strip('"')
RECURSIVE strip_quotes(_)
strip_quotes(value) ==
    IF value = <<>> THEN <<>>
    ELSE IF Head(value) = "\"" THEN strip_quotes(Tail(value))
    ELSE IF value[Len(value)] = "\"" THEN strip_quotes(SubSeq(value, 1, Len(value) - 1))
    ELSE value

\* extract_csrf_token over the cookies from the i-th on
RECURSIVE scan_cookies(_, _)
scan_cookies(cookies, i) ==
    IF i > Len(cookies) THEN None
    ELSE IF cookies[i].name = "JSESSIONID" THEN JStr(strip_quotes(cookies[i].value))
    ELSE scan_cookies(cookies, i + 1)

extract_csrf_token(cookies) == scan_cookies(cookies, 1)

\* what self.driver.get_cookies() may return
CookieJars ==
    LET session == [name |-> "JSESSIONID", value |-> <<"\"", "ajax:1", "\"">>]
        lower == [name |-> "jsessionid", value |-> <<"\"", "ajax:2", "\"">>]
        lang == [name |-> "lang", value |-> <<"v=2">>]
    IN {<<>>, <<lang>>, <<lower>>, <<session>>, <<lang, session>>}

\* the retry loop of the main script: for i in range(4)
Attempts == 4

\* the exchanges captured after the leaderboard of g was fetched at time t:
\* the answer to the fetch, the fetch without its answer yet, and the answer
\* to a leaderboard request of the page for another game
ScriptExchanges(g, t) ==
    { Exchange(fetch_script(g, t, None).url,
               LeaderboardBody(OptedInKey, <<ScoredEntry(Mads, MadsUrn, 40, TRUE)>>)),
      Exchange(fetch_script(g, t, None).url, NoResponse),
      Exchange(fetch_script(OtherGame(g), t, None).url,
               LeaderboardBody(OptedInKey, <<ScoredEntry(Anna, AnnaUrn, 30, FALSE)>>)) }

\* the main script is started: the solver it constructs is this session's
CallMain ==
    /\ pc = "idle"
    /\ calls = 0
    /\ calls' = 1
    /\ pc' = "main_get"
    /\ UNCHANGED <<requests, results, game, elapsed, solution, polls, found, boardVars,
                   saves, driver, csrf_token, last_fetch, now, recorded, attempt>>

\* solver.driver.get("https://www.linkedin.com/") and wait_for_page_load
MainGet(raised) ==
    /\ pc = "main_get"
    /\ pc' = IF raised THEN "main_raised" ELSE "main_token"
    /\ UNCHANGED <<requests, results, game, elapsed, solution, polls, found, boardVars,
                   scriptVars>>

\* csrf_token = solver.extract_csrf_token(); leaderboard = {}
MainExtractCsrfToken(cookies) ==
    /\ pc = "main_token"
    /\ csrf_token' = extract_csrf_token(cookies)
    /\ recorded' = <<>>
    /\ game' = GameOrder[1]
    /\ attempt' = 0
    /\ pc' = "main_fetch"
    /\ UNCHANGED <<requests, results, elapsed, solution, polls, found, boardVars,
                   saves, calls, driver, last_fetch, now>>

\* solver.get_leaderboard_via_fetch(game_name, csrf_token): the log is
\* cleared and the fetch is issued, or execute_script raises and the
\* exception is logged
MainFetch(sent) ==
    /\ pc = "main_fetch"
    /\ requests' = <<>>
    /\ last_fetch' = IF sent THEN fetch_script(game, now, csrf_token) ELSE NoFetch
    /\ pc' = "main_answers"
    /\ UNCHANGED <<results, game, elapsed, solution, polls, found, boardVars,
                   saves, calls, driver, csrf_token, now, recorded, attempt>>

\* the browser appends an exchange to the log before the scan
MainCapture ==
    /\ pc = "main_answers"
    /\ Len(requests) < MaxRoundAnswers
    /\ \E e \in ScriptExchanges(game, now) : requests' = Append(requests, e)
    /\ UNCHANGED <<puzzleVars, boardVars, scriptVars>>

\* lines 21-27 and 31 with lb the mapping find_leaderboard_data returned
Scanned(lb) ==
    /\ leaderboard' = lb
    /\ recorded' = IF DOMAIN lb # {} THEN (game :> lb) @@ recorded ELSE recorded
    /\ IF DOMAIN lb = {} /\ attempt + 1 < Attempts
       THEN /\ attempt' = attempt + 1
            /\ pc' = "main_fetch"
            /\ UNCHANGED <<game, results>>
       ELSE IF IndexOf(game) < Len(GameOrder)
       THEN /\ attempt' = 0
            /\ game' = GameOrder[IndexOf(game) + 1]
            /\ pc' = "main_fetch"
            /\ UNCHANGED results
       ELSE /\ results' = recorded'
            /\ pc' = "main_done"
            /\ UNCHANGED <<game, attempt>>

\* leaderboard_local = solver.find_leaderboard_data() and the rest of the round
MainScan ==
    /\ pc = "main_answers"
    /\ Scanned(find_leaderboard_data(requests))
    /\ UNCHANGED <<requests, elapsed, solution, polls, found, user,
                   saves, calls, driver, csrf_token, last_fetch, now>>

\* finally: results_file = solver.cleanup(); the script ends there
MainFinally ==
    /\ pc \in {"main_done", "main_raised"}
    /\ IF cleanup_in_finally(pc = "main_raised") THEN Cleanup ELSE UNCHANGED <<driver, saves>>
    /\ pc' = "ended"
    /\ UNCHANGED <<requests, results, game, elapsed, solution, polls, found, boardVars,
                   calls, csrf_token, last_fetch, now, recorded, attempt>>

\* the process ends
EndSession ==
    /\ pc = "idle"
    /\ pc' = "ended"
    /\ UNCHANGED <<requests, results, game, elapsed, solution, polls, found, boardVars,
                   scriptVars>>

SessionNext ==
    \/ CallSolveAllGames
    \/ \E outcome \in {"found", "not_found", "raised"} : SolveGame(outcome)
    \/ SolveAllGamesFinally
    \/ CallCleanup
    \/ CallMain
    \/ \E raised \in BOOLEAN : MainGet(raised)
    \/ \E cookies \in CookieJars : MainExtractCsrfToken(cookies)
    \/ \E sent \in BOOLEAN : MainFetch(sent)
    \/ MainCapture
    \/ MainScan
    \/ MainFinally
    \/ EndSession

SessionSpec == SessionInit /\ [][SessionNext]_vars

---------------------------------------------------------------------------
(* get_leaderboard_via_fetch as the clock advances *)

\* 2025-12-01 00:00, in hours since 2024-04-30 00:00
ClockStart == 580 * 24

ClockInit == Constructed /\ user = NoUser /\ now = ClockStart

\* an hour passes
ClockTick ==
    /\ pc = "idle"
    /\ now + 1 < ClockStart + MaxClockDays * 24
    /\ now' = now + 1
    /\ UNCHANGED <<requests, results, pc, game, elapsed, solution, polls, found, boardVars,
                   saves, calls, driver, csrf_token, last_fetch, recorded, attempt>>

\* get_leaderboard_via_fetch(g, csrf_token) up to execute_script
FetchLeaderboard(g) ==
    /\ pc = "idle"
    /\ requests' = <<>>
    /\ game' = g
    /\ last_fetch' = fetch_script(g, now, csrf_token)
    /\ pc' = "fetching"
    /\ UNCHANGED <<results, elapsed, solution, polls, found, boardVars,
                   saves, calls, driver, csrf_token, now, recorded, attempt>>

\* time.sleep(1.5) and the return of get_leaderboard_via_fetch
FetchReturn ==
    /\ pc = "fetching"
    /\ pc' = "idle"
    /\ UNCHANGED <<requests, results, game, elapsed, solution, polls, found, boardVars,
                   scriptVars>>

ClockNext ==
    \/ ClockTick
    \/ \E g \in Games : FetchLeaderboard(g)
    \/ FetchReturn

ClockSpec == ClockInit /\ [][ClockNext]_vars

---------------------------------------------------------------------------
(* Properties of the classifier and of the retrieval loop *)

\* the least element of a set of indexes, 0 for the empty set
FirstIndex(S) ==
    IF S = {} THEN 0 ELSE CHOOSE i \in S : \A j \in S : i <= j

\* the exchange has a response and its URL is a puzzle-data URL of game type
\* id in the games-data family, as section 4.1 of the specification words it
Eligible(e, id) ==
    /\ e.response.k # "none"
    /\ Contains(e.url, <<"voyager/api/graphql">>)
    /\ Contains(e.url, <<"gameTypeId:">> \o Digits(id))
    /\ Contains(e.url, <<"voyagerIdentityDashGame", "s">>)
    /\ ~Contains(e.url, <<"voyagerIdentityDashGame", "s", "Pages">>)

EligibleIndexes(reqs, id) == {i \in 1..Len(reqs) : Eligible(reqs[i], id)}

ParsedIndexes(reqs, id) == {i \in EligibleIndexes(reqs, id) : reqs[i].response.k = "json"}

PagesUrl(g) == GameUrl(GraphqlToken, GAME_TYPE_IDS[g], GamesPagesToken)
PuzzleUrl(g) == GameUrl(GraphqlToken, GAME_TYPE_IDS[g], GamesToken)

\* C1: whatever the log holds and whatever the game, the exchange whose body
\* _find_game_response returns never has a URL of the pages family
\* (voyagerIdentityDashGamesPages), although such a URL contains the
\* games-data token; the same holds of the exchange the last poll read.
C1_NeverPagesFamily ==
    /\ \A g \in Games :
          LET r == find_game_response(requests, GAME_TYPE_IDS[g])
          IN r.idx # 0 => ~Contains(requests[r.idx].url, GamesPagesToken)
    /\ found # 0 => ~Contains(requests[found].url, GamesPagesToken)

\* a poll has passed over a pages-family exchange that carries the game's id
\* and a well-formed body, and has taken the games-data exchange after it
C1_Witness ==
    /\ polls > 0
    /\ found = 2
    /\ requests[1] = Exchange(PagesUrl(game), GoodBody(game))
    /\ Contains(requests[1].url, GamesToken)

\* C2 as stated: the classifier returns the first exchange that has a response
\* and whose URL satisfies the predicates, and None only when there is none.
C2_FirstEligibleReturned ==
    \A g \in Games :
        LET r == find_game_response(requests, GAME_TYPE_IDS[g])
        IN r.idx = FirstIndex(EligibleIndexes(requests, GAME_TYPE_IDS[g]))

\* C2 amended: the classifier returns the parsed body of the first exchange, in
\* capture order, that has a response, whose URL satisfies the predicates and
\* whose body decodes and parses; exchanges without a response are never
\* taken; when no exchange qualifies it returns None, and it never raises.
C2_FirstParsedReturned ==
    \A g \in Games :
        LET r == find_game_response(requests, GAME_TYPE_IDS[g])
            first == FirstIndex(ParsedIndexes(requests, GAME_TYPE_IDS[g]))
        IN /\ r.idx = first
           /\ r.data # Raise
           /\ first # 0 => r.data = requests[first].response.v
           /\ first = 0 => r.data = None

\* a poll has read the second exchange because the first, which has a response
\* and a matching URL, does not parse
C2_Witness ==
    /\ polls > 0
    /\ found = 2
    /\ Eligible(requests[1], GAME_TYPE_IDS[game])
    /\ requests[1].response.k # "json"

\* C3: at every poll the classifier passes over the matched exchanges whose
\* body does not decode or parse and reads the first one that does; once a
\* poll has read the body of an exchange, every later poll of the call reads
\* the same exchange, whatever was captured after it and although the
\* decoder failed on it.
C3_NoFallThrough ==
    [][polls' = polls + 1 =>
          /\ found' = FirstIndex(ParsedIndexes(requests, GAME_TYPE_IDS[game]))
          /\ found # 0 => found' = found]_vars

\* the second poll has read the first exchange again, on which the decoder
\* fails, although a matching exchange with a well-formed body follows it
C3_Witness ==
    /\ polls >= 2
    /\ found = 1
    /\ solution = None
    /\ Len(requests) >= 2
    /\ requests[1] = Exchange(PuzzleUrl(game), MissingKeyBody(game))
    /\ requests[2] = Exchange(PuzzleUrl(game), GoodBody(game))

\* C4: a retrieval loop that has returned either returns a solution or has
\* seen the whole timeout elapse; once a poll has produced a solution no
\* further poll is made; and every call of solve_<game> returns.
C4_PollUntilSolutionOrTimeout ==
    /\ [](pc = "returned" => (Truthy(solution) \/ elapsed >= TimeoutSeconds))
    /\ [][Truthy(solution) => polls' = polls]_vars
    /\ (pc = "starting" ~> pc = "returned")

\* a loop has returned "not found" after polling more than once
C4_Witness ==
    /\ pc = "returned"
    /\ ~Truthy(solution)
    /\ polls >= 2
    /\ elapsed >= TimeoutSeconds

\* the bodies of the model that lack a key, carry a value of the wrong type or
\* have an empty "included" list
MalformedBodies(g) ==
    {WronglyTypedBody(g), MissingKeyBody(g), EmptyIncludedBody, NumberIncludedBody}

\* C5 as stated: whenever the body the classifier returns lacks a key, has a
\* wrongly typed value or an empty "included", the extractor returns None.
C5_EveryMalformedBodyFails ==
    (polls > 0 /\ found # 0 /\ requests[found].response \in MalformedBodies(game))
        => solution = None

\* C5 amended: whenever the game's path through the body the classifier
\* returns raises (a required key is missing, a value has a type the path's
\* operations reject, "included" is empty), the extractor returns None and
\* leaves the results store as it was, no exception reaches the loop, and the
\* loop goes on polling: it returns "not found", and only at the timeout.
C5_RaisingBodyFails ==
    /\ [][(polls' = polls + 1
             /\ Truthy(find_game_response(requests, GAME_TYPE_IDS[game]).data)
             /\ extract(game, find_game_response(requests, GAME_TYPE_IDS[game]).data) = Raise)
          => (solution' = None /\ results' = results /\ pc' = "sleeping")]_vars
    /\ [](pc # "crashed")
    /\ []((pc = "returned" /\ found # 0
             /\ requests[found].response \in
                   {MissingKeyBody(game), EmptyIncludedBody, NumberIncludedBody})
          => (solution = None /\ elapsed >= TimeoutSeconds))

\* a loop has polled the same body without its solution key until the timeout
C5_Witness ==
    /\ pc = "returned"
    /\ polls >= 2
    /\ found # 0
    /\ requests[found].response = MissingKeyBody(game)
    /\ solution = None
    /\ results = <<>>

---------------------------------------------------------------------------
(* Properties of the leaderboard aggregator *)

\* the exchange has a response and a URL of the leaderboard family with one of
\* the two known query ids
LeaderboardMatched(e) ==
    /\ e.response.k # "none"
    /\ Contains(e.url, <<"voyager/api/graphql">>)
    /\ Contains(e.url, <<"voyagerIdentityDashGame", "ConnectionsEntities">>)
    /\ \/ Contains(e.url, <<"c37afe5a2cada33789b5a636e62147ae">>)
       \/ Contains(e.url, <<"370a22a07dce5feba0a603ed03e4c908">>)

\* the body of a matched exchange parses and holds a list of entries under
\* one of the two field names
HasEntries(e) ==
    /\ LeaderboardMatched(e)
    /\ e.response.k = "json"
    /\ e.response.v.t = "obj"
    /\ "data" \in DOMAIN e.response.v.v
    /\ e.response.v.v.data.t = "obj"
    /\ \E k \in {OptedInKey, SnapshotKey} :
          /\ k \in DOMAIN e.response.v.v.data.v
          /\ e.response.v.v.data.v[k].t = "obj"
          /\ "elements" \in DOMAIN e.response.v.v.data.v[k].v
          /\ e.response.v.v.data.v[k].v.elements.t = "list"

\* the entries a matched, well-formed exchange carries (none otherwise)
EntriesOf(e) ==
    IF ~HasEntries(e) THEN <<>>
    ELSE LET d == e.response.v.v.data.v
             k == IF OptedInKey \in DOMAIN d THEN OptedInKey ELSE SnapshotKey
         IN d[k].v.elements.v

NameOf(entry) == entry.v.playerDetails.v.player.v.profile.v.firstName
UrnOf(entry) == entry.v.playerDetails.v.player.v.entityUrn.v
Scored(entry) == "gameScore" \in DOMAIN entry.v
FieldOrNone(obj, k) == IF k \in DOMAIN obj.v THEN obj.v[k] ELSE None

\* the value the specification gives a scored entry: absent fields are None
ScoreOf(entry) ==
    JObj([time |-> FieldOrNone(entry.v.gameScore, "timeElapsed"),
          guessCount |-> FieldOrNone(entry.v.gameScore, "totalGuessCount"),
          flawless |-> FieldOrNone(entry, "isFlawless")])

\* the positions <<i, k>> of the scored entries of the log
ScoredPositions(reqs) ==
    {p \in (1..Len(reqs)) \X (1..MaxAnswers) :
        /\ p[2] <= Len(EntriesOf(reqs[p[1]]))
        /\ Scored(EntriesOf(reqs[p[1]])[p[2]])}

EntryAt(reqs, p) == EntriesOf(reqs[p[1]])[p[2]]

\* p comes before q in scan order
Before(p, q) == p[1] < q[1] \/ (p[1] = q[1] /\ p[2] < q[2])

Remove(seq, i) == SubSeq(seq, 1, i - 1) \o SubSeq(seq, i + 1, Len(seq))

\* C6: the mapping is keyed by first name and, for every name, holds the
\* values of the last scored entry for that name in capture order: the later
\* exchange wins, a name that one exchange alone carries keeps its values.
C6_LaterExchangeWins ==
    pc = "scanned" =>
        \A p \in ScoredPositions(requests) :
            (\A q \in ScoredPositions(requests) :
                 NameOf(EntryAt(requests, q)) = NameOf(EntryAt(requests, p)) => ~Before(p, q))
            => /\ NameOf(EntryAt(requests, p)) \in DOMAIN leaderboard
               /\ leaderboard[NameOf(EntryAt(requests, p))] = ScoreOf(EntryAt(requests, p))

\* C7 as stated: a log in which a matching exchange appears twice gives the
\* mapping of the log in which it appears once, the second capture left out.
C7_SecondCopyChangesNothing ==
    pc = "scanned" =>
        \A i, j \in 1..Len(requests) :
            (i < j /\ requests[i] = requests[j] /\ LeaderboardMatched(requests[i]))
            => leaderboard = find_leaderboard_data(Remove(requests, j))

\* C7 amended: a log in which a matching exchange appears twice gives the
\* mapping of the log that keeps only the later of the two copies; a copy
\* captured right after the original therefore changes nothing.
C7_EarlierCopyChangesNothing ==
    pc = "scanned" =>
        \A i, j \in 1..Len(requests) :
            (i < j /\ requests[i] = requests[j] /\ LeaderboardMatched(requests[i]))
            => leaderboard = find_leaderboard_data(Remove(requests, i))

\* the scan has read an exchange, another one that names the same player, and
\* the first one again
C7_Witness ==
    /\ pc = "scanned"
    /\ Len(requests) = 3
    /\ requests[1] = requests[3]
    /\ requests[1] # requests[2]
    /\ Mads \in DOMAIN find_leaderboard_data(<<requests[1]>>)
    /\ Mads \in DOMAIN find_leaderboard_data(<<requests[2]>>)
    /\ find_leaderboard_data(<<requests[1]>>)[Mads] # find_leaderboard_data(<<requests[2]>>)[Mads]
    /\ leaderboard[Mads] = find_leaderboard_data(<<requests[1]>>)[Mads]

LowerChar(c) ==
    CASE c = "A" -> "a" [] c = "B" -> "b" [] c = "D" -> "d" [] c = "M" -> "m"
      [] c = "N" -> "n" [] c = "O" -> "o" [] c = "S" -> "s" [] OTHER -> c

\* text.lower()
Lower(text) == [i \in 1..Len(text) |-> LowerChar(text[i])]

\* C8: with a user configured, every entry of the mapping comes from a record
\* whose player-identity token contains the user's identity substring, case
\* ignored.
C8_OnlyConfiguredUser ==
    (pc = "scanned" /\ user # NoUser) =>
        \A name \in DOMAIN leaderboard :
            \E p \in ScoredPositions(requests) :
                /\ NameOf(EntryAt(requests, p)) = name
                /\ ScoreOf(EntryAt(requests, p)) = leaderboard[name]
                /\ Contains(Lower(UrnOf(EntryAt(requests, p))), Lower(user))

\* C9: an entry without gameScore adds nothing to the mapping and every scored
\* entry of the same exchange, before and after it, is merged.
C9_PendingEntrySkipped ==
    pc = "scanned" =>
        /\ \A p \in ScoredPositions(requests) :
              NameOf(EntryAt(requests, p)) \in DOMAIN leaderboard
        /\ \A name \in DOMAIN leaderboard :
              \E p \in ScoredPositions(requests) : NameOf(EntryAt(requests, p)) = name

\* a matched exchange whose body does not decode, does not parse or lacks
\* the structure that holds the entries
Malformed(e) == LeaderboardMatched(e) /\ ~HasEntries(e)

\* C10: a matching exchange with a malformed body (undecodable bytes, invalid
\* JSON, missing structure) changes nothing: the scan returns the mapping it
\* returns for the log without that exchange, so the entries of the exchanges
\* before and after it are merged.
C10_MalformedExchangeIsolated ==
    pc = "scanned" =>
        \A i \in 1..Len(requests) :
            Malformed(requests[i]) => leaderboard = find_leaderboard_data(Remove(requests, i))

\* the scan has met a malformed exchange between two exchanges with entries,
\* and the mapping holds entries of both
C10_Witness ==
    /\ pc = "scanned"
    /\ Len(requests) = 3
    /\ Malformed(requests[2])
    /\ Len(EntriesOf(requests[1])) = 1
    /\ Len(EntriesOf(requests[3])) = 2
    /\ leaderboard = find_leaderboard_data(<<requests[1], requests[3]>>)
    /\ Cardinality(DOMAIN leaderboard) = 2
    /\ leaderboard # find_leaderboard_data(<<requests[1]>>)

---------------------------------------------------------------------------
(* Properties of the decoders *)

\* the puzzle of the one payload of the log
InputPuzzle == requests[1].response.v.v.included.v[1].v.gamePuzzle.v[PuzzleKey[game]]

\* the permutations of 1..n
Perms(n) == {f \in [1..n -> 1..n] : \A i, j \in 1..n : f[i] = f[j] => i = j}

Permuted(seq, f) == [i \in 1..Len(seq) |-> seq[f[i]]]

\* what _find_crossclimb_solution returns for a payload with these rungs
CrossclimbOf(rungs) ==
    find_crossclimb_solution(PayloadLog("crossclimb", JObj([rungs |-> JList(rungs)])), <<>>).ret

\* a list of (rank, word) pairs in ascending rank order
Ascending(pairs) ==
    \A i, j \in 1..Len(pairs) : i < j => pairs[i].v[1].v <= pairs[j].v[1].v

DistinctRanks(rungs) ==
    \A i, j \in 1..Len(rungs) :
        i # j => rungs[i].v.solutionRungIndex # rungs[j].v.solutionRungIndex

\* C11 as stated: whatever the list of rungs, every permutation of it decodes
\* to the sequence of (rank, word) pairs the list decodes to, in ascending
\* rank order.
C11_AnyPermutationSameOutput ==
    (pc = "decoded" /\ game = "crossclimb") =>
        /\ Ascending(solution.v)
        /\ \A f \in Perms(Len(InputPuzzle.v.rungs.v)) :
              CrossclimbOf(Permuted(InputPuzzle.v.rungs.v, f)) = solution

\* C11 amended: for every list of rungs the output is in ascending rank order
\* and has one pair per rung; when the ranks of the rungs are pairwise
\* distinct, every permutation of the list decodes to the identical sequence.
C11_DistinctRanksSameOutput ==
    (pc = "decoded" /\ game = "crossclimb") =>
        /\ Ascending(solution.v)
        /\ Len(solution.v) = Len(InputPuzzle.v.rungs.v)
        /\ DistinctRanks(InputPuzzle.v.rungs.v) =>
              \A f \in Perms(Len(InputPuzzle.v.rungs.v)) :
                  CrossclimbOf(Permuted(InputPuzzle.v.rungs.v, f)) = solution

\* three rungs captured in the order 2, 0, 1 have been decoded to 0, 1, 2
C11_Witness ==
    /\ pc = "decoded"
    /\ game = "crossclimb"
    /\ Len(InputPuzzle.v.rungs.v) = 3
    /\ InputPuzzle.v.rungs.v[1].v.solutionRungIndex = JNum(2)
    /\ InputPuzzle.v.rungs.v[2].v.solutionRungIndex = JNum(0)
    /\ InputPuzzle.v.rungs.v[3].v.solutionRungIndex = JNum(1)
    /\ solution.v[1] = Pair(JNum(0), InputPuzzle.v.rungs.v[2].v.word)
    /\ solution.v[3] = Pair(JNum(2), InputPuzzle.v.rungs.v[1].v.word)

\* the rows, put one after the other
RECURSIVE Reassembled(_)
Reassembled(rows) ==
    IF rows = <<>> THEN <<>> ELSE Head(rows) \o Reassembled(Tail(rows))

\* the grid size the decoder takes for the payload
GridSizeOf(puzzle) ==
    IF "gridRowSize" \in DOMAIN puzzle.v THEN puzzle.v.gridRowSize.v ELSE 6

\* C12 as stated: whatever flat solution and grid size the decoder accepts,
\* the rows it cuts, put together again, are the flat solution, and the
\* solution stored and returned is the flat solution.
C12_RowsRoundTrip ==
    (pc = "decoded" /\ game = "mini_sudoku") =>
        /\ Reassembled(logged_rows(InputPuzzle.v.solution.v, GridSizeOf(InputPuzzle)))
              = InputPuzzle.v.solution.v
        /\ solution = InputPuzzle.v.solution
        /\ results.mini_sudoku.v.solution = InputPuzzle.v.solution

\* C12 amended: the solution stored and returned is always the unmodified flat
\* solution; the rows the decoder cuts, put together again, are the flat
\* solution whenever the grid size is not negative and the flat solution has
\* at most gridSize * gridSize items.
C12_RowsRoundTripWithinGrid ==
    (pc = "decoded" /\ game = "mini_sudoku") =>
        /\ solution = InputPuzzle.v.solution
        /\ results.mini_sudoku.v.solution = InputPuzzle.v.solution
        /\ (/\ GridSizeOf(InputPuzzle) >= 0
            /\ Len(InputPuzzle.v.solution.v) <= GridSizeOf(InputPuzzle) * GridSizeOf(InputPuzzle))
           => Reassembled(logged_rows(InputPuzzle.v.solution.v, GridSizeOf(InputPuzzle)))
                 = InputPuzzle.v.solution.v

\* a flat solution of four cells has been decoded with grid size 2: two rows
\* of two cells, the flat solution stored
C12_Witness ==
    /\ pc = "decoded"
    /\ game = "mini_sudoku"
    /\ GridSizeOf(InputPuzzle) = 2
    /\ InputPuzzle.v.solution.v = <<JNum(1), JNum(2), JNum(2), JNum(1)>>
    /\ logged_rows(InputPuzzle.v.solution.v, 2) = <<<<JNum(1), JNum(2)>>, <<JNum(2), JNum(1)>>>>
    /\ results.mini_sudoku.v.solution = JList(<<JNum(1), JNum(2), JNum(2), JNum(1)>>)

\* C13: for every list of tokens the tango decoder returns, and stores, a
\* text as long as the list whose i-th character is "1" when the i-th token
\* is "ONE" and "0" for any other token, recognised or not; no exception
\* leaves the call; ["ONE", "TWO", "ONE"] gives "101".
C13_TangoTotal ==
    /\ pc # "crashed"
    /\ (pc = "decoded" /\ game = "tango") =>
          /\ solution.t = "str"
          /\ Len(solution.v) = Len(InputPuzzle.v.solution.v)
          /\ \A i \in 1..Len(solution.v) :
                solution.v[i] = (IF InputPuzzle.v.solution.v[i] = ONE THEN "1" ELSE "0")
          /\ results.tango = solution
          /\ InputPuzzle.v.solution.v = <<ONE, JStr(<<"T", "W", "O">>), ONE>>
                => solution = JStr(<<"1", "0", "1">>)

\* a list with a token in lower case and a number has been decoded to "100"
C13_Witness ==
    /\ pc = "decoded"
    /\ game = "tango"
    /\ InputPuzzle.v.solution.v = <<ONE, JStr(<<"o", "n", "e">>), JNum(1)>>
    /\ solution = JStr(<<"1", "0", "0">>)

---------------------------------------------------------------------------
(* Properties of a session *)

\* C14 as stated: whatever calls of solve_all_games, cleanup and the main
\* script a session makes, the store starts empty and save_results is
\* executed exactly once in the session: never twice, and once when the
\* session ends after at least one call.
C14_SavedExactlyOnce ==
    /\ calls = 0 => (results = <<>> /\ saves = 0)
    /\ saves <= 1
    /\ (pc = "ended" /\ calls > 0) => saves = 1

\* C15: when extract_csrf_token returned None no leaderboard fetch is issued
\* and no leaderboard is recorded, while the run goes on and saves its
\* results once.
C15_NoFetchWithoutToken ==
    /\ csrf_token = None => (last_fetch = NoFetch /\ recorded = <<>>)
    /\ (pc = "ended" /\ calls = 1) => saves = 1

\* the exchanges of the log that answer the leaderboard request of g
OwnAnswers(reqs, g, t) ==
    SelectSeq(reqs, LAMBDA e : e.url = LeaderboardUrl(g, t \div 24 - GAME_START_DAYS[g], QueryIdB))

\* C18: the mapping a round of the main script gets for game G, and records
\* when it is not empty, holds the entries of the exchanges that answer G's
\* own request and no others.
C18_OnlyOwnAnswers ==
    [][(pc = "main_answers" /\ pc' # "main_answers")
          => /\ leaderboard' = find_leaderboard_data(OwnAnswers(requests, game, now))
             /\ game \in DOMAIN recorded'
                   => recorded'[game] = find_leaderboard_data(OwnAnswers(requests, game, now))]_vars

---------------------------------------------------------------------------
(* Properties of the day count *)

\* the day count the URL of the last fetch carries is n
CarriesDayCount(n) == last_fetch.url = LeaderboardUrl(game, n, QueryIdB)

---------------------------------------------------------------------------
(* Properties of the results store *)

\* the URL names id as its game type id: the digits of id, and no digit after
ExactGameTypeId(url, id) == Contains(url, <<"gameTypeId:">> \o Digits(id) \o <<")&queryId=">>)

\* the keys of results["data"] that belong to g
StoreKeys(g) ==
    CASE g = "pinpoint" -> {"pinpoint"}
      [] g = "crossclimb" -> {"crossclimb"}
      [] g = "zip" -> {"zip", "zip_sequence", "zip_grid"}
      [] g = "queens" -> {"queens", "queens_board", "queens_grid"}
      [] g = "tango" -> {"tango"}
      [] g = "mini_sudoku" -> {"mini_sudoku"}

\* C16: the body the decoder of game G reads comes from an exchange whose URL
\* names exactly G's game type id, never a longer id that starts with G's
\* digits, and the decoder writes only G's keys of the results store.
C16_OnlyOwnPayload ==
    /\ found # 0 => ExactGameTypeId(requests[found].url, GAME_TYPE_IDS[game])
    /\ game \in Games => DOMAIN results \subseteq StoreKeys(game)

\* C19: when solve_<game> returns, the store holds the game's keys if and
\* only if the loop returned a solution; a payload that decodes to an empty
\* value leaves no entry while the loop reports "not found".
C19_StoreAgreesWithOutcome ==
    pc = "returned" =>
        /\ Truthy(solution) => StoreKeys(game) \subseteq DOMAIN results
        /\ ~Truthy(solution) => DOMAIN results = {}

====
